---- MODULE Spec2Model ----
(***************************************************************************)
(* LunaReading: the answer-submission flow of SessionView (React) against  *)
(* the question/answer backend.                                            *)
(*                                                                         *)
(* Client state is the useState fields of SessionView.  A JavaScript map   *)
(* entry that is undefined is represented by the value every read of it    *)
(* in the component treats it as: answers[q] undefined is the empty text   *)
(* (both are falsy and both render as ''), submitting[q] and               *)
(* submissionStates[q] undefined are FALSE, examples[q] undefined is the   *)
(* empty list, feedbacks[q] undefined is NoFeedback.                       *)
(*                                                                         *)
(* Scores are hundredths (0.7 is 70).  A text is a sequence of characters. *)
(***************************************************************************)
EXTENDS Integers, Sequences, FiniteSets, TLC

\* ------------------------------------------------------------------ bounds
NumQuestions == 2      \* questions of the session
MaxInflight == 2       \* submit requests in flight at once
MaxFetches == 1        \* session reloads in flight at once
MaxAnswers == 3        \* answers the backend stores per question
MaxUtterances == 2     \* utterances in the queue of speechSynthesis
MaxCancelled == 1      \* cancelled utterances whose last event is still to be fired
MaxProfileGets == 2    \* GET /api/profile requests in flight
MaxLogins == 1         \* POST /api/login and /api/register requests in flight

\* --------------------------------------------------------------- constants
Threshold == 70        \* q.score >= 0.7
DefaultGrade == 3      \* useState({ grade_level: 3 })
\* <option value={1}> ... <option value={6}>
Grades == 1..6

Questions == 1..NumQuestions
SubmissionTypes == {"initial", "retry", "final"}

\* Texts a learner types: nothing, a blank, an answer.
Texts == {<< >>, <<" ">>, <<"a">>}

\* What the evaluator can return for an answer: score and rating.
EvalResults == {[score |-> 40, rating |-> 2], [score |-> 70, rating |-> 4]}
\* A missing (null, undefined or NaN) score.
NoScore == -1
\* What the evaluator can return in breach of its contract: no score.
UnscoredResults == {[score |-> NoScore, rating |-> 2]}
EvalOutcomes == EvalResults \cup UnscoredResults

\* Access tokens the backend issues; null and the absence of a header or of a stored
\* token are NoToken.  The user object of the logged-in user; null is NoUser.
Tokens == {"t1", "t2"}
NoToken == "none"
NoUser == "none"
UserData == "user"

\* What the recognizer can hear.
Transcripts == {<<"b">>}

\* Example answers returned with an evaluation: none or some.
ExampleLists == {<< >>, <<"ex">>}

VARIABLES
    log,              \* backend: per question, the answers recorded (append-only)
    session,          \* useState session
    answers,          \* useState answers
    feedbacks,        \* useState feedbacks
    examples,         \* useState examples
    submissionStates, \* useState submissionStates
    loading,          \* useState loading
    submitting,       \* useState submitting
    error,            \* useState error
    posts,            \* POST /api/questions/:id/answer requests in flight
    fetches,          \* number of GET /api/sessions/:id requests in flight
    gradeLevel,       \* backend: user.grade_level
    readingLevel,     \* backend: user.reading_level, in hundredths of a grade
    formData,         \* Profile: useState formData.grade_level
    isSpeaking,       \* useState isSpeaking
    isListening,      \* useState isListening
    speakingQuestionId, \* useRef speakingQuestionId
    strayAnswers,     \* keys of answers that are no question id
    svcIsSpeaking,    \* audioService.isSpeaking
    svcIsListening,   \* audioService.isListening
    utterances,       \* speechSynthesis: the utterance queue, the head may be spoken
    synthSpeaking,    \* speechSynthesis: the head of the queue has begun to be spoken
    cancelled,        \* cancelled utterances whose last event is still to be fired
    recognition,      \* SpeechRecognition: the state of the recognizer
    listeningFor,     \* the question whose microphone button started the recognizer
    offeredBefore,    \* the actions the page offered when it was left for a reload
    authToken,        \* AuthProvider: useState token
    authUser,         \* AuthProvider: useState user
    authLoading,      \* AuthProvider: useState loading
    storedToken,      \* localStorage 'token'
    authHeader,       \* axios.defaults.headers.common['Authorization']
    profileGets,      \* GET /api/profile in flight: the Authorization each was sent with
    logins,           \* POST /api/login and /api/register requests in flight
    fetchErrorLogged  \* console.error('Failed to fetch profile:') has been written

\* The state of SessionView's submission flow, the typed answers apart.
sessionVars == <<log, session, feedbacks, examples, submissionStates,
                 loading, submitting, error, posts, fetches>>
\* The Profile form and the user's grade level.
profileVars == <<gradeLevel, formData>>
\* SessionView's audio state, audioService and the browser's speech engines.
audioVars == <<isSpeaking, isListening, speakingQuestionId, strayAnswers,
               svcIsSpeaking, svcIsListening, utterances, synthSpeaking, cancelled,
               recognition, listeningFor>>

reloadVars == <<offeredBefore>>

authVars == <<authToken, authUser, authLoading, storedToken, authHeader, profileGets,
              logins, fetchErrorLogged>>

vars == <<sessionVars, answers, profileVars, readingLevel, audioVars, reloadVars,
          authVars>>

\* ------------------------------------------------------------------- texts
RECURSIVE TrimStart(_)
TrimStart(s) == IF s = << >> THEN s
                ELSE IF Head(s) = " " THEN TrimStart(Tail(s)) ELSE s

RECURSIVE TrimEnd(_)
TrimEnd(s) == IF s = << >> THEN s
              ELSE IF s[Len(s)] = " " THEN TrimEnd(SubSeq(s, 1, Len(s) - 1)) ELSE s

\* String.prototype.trim
Trim(s) == TrimEnd(TrimStart(s))

\* As IsBlank, with the trim forgotten: !answers[q]
IsBlank_NoTrim(text) == text = << >>

\* !answers[q] || !answers[q].trim()
IsBlank(text) == text = << >> \/ Trim(text) = << >>

\* ----------------------------------------------------------------- backend
\* The state of a question, derived from its answer history.
QState(h) ==
    IF h = << >> THEN "NOT_ATTEMPTED"
    ELSE IF \E i \in 1..Len(h) : h[i].type = "final" THEN "FINALIZED"
    ELSE IF \E i \in 1..Len(h) : h[i].score >= Threshold THEN "SUFFICIENT"
    ELSE "AWAITING_RETRY"

isTerminal(state) == state \in {"SUFFICIENT", "FINALIZED"}

\* As LegalTypes, without the QuestionAlreadyComplete check: whatever has been
\* attempted accepts retry and final.
LegalTypes_NoCompleteCheck(state) ==
    CASE state = "NOT_ATTEMPTED" -> {"initial"}
      [] OTHER -> {"retry", "final"}

\* The submission types the state machine accepts in a state.
LegalTypes(state) ==
    CASE state = "NOT_ATTEMPTED" -> {"initial"}
      [] state = "AWAITING_RETRY" -> {"retry", "final"}
      [] OTHER -> {}

\* EmptyAnswerError: the submitted text is empty or whitespace.
EmptyAnswer(text) == \A k \in 1..Len(text) : text[k] = " "

\* As ValidScore, with the check of the evaluator's result missing.
ValidScore_Unchecked(r) == TRUE

\* The evaluator's result carries a score; otherwise EvaluatorFailure.
ValidScore(r) == r.score # NoScore

\* The question row GET /api/sessions/:id returns: the latest answer's fields.
NoQuestionData == [answered |-> FALSE, answer |-> << >>, score |-> 0, rating |-> 0]
QuestionData(h) ==
    IF h = << >> THEN NoQuestionData
    ELSE [answered |-> TRUE, answer |-> h[Len(h)].text,
          score |-> h[Len(h)].score, rating |-> h[Len(h)].rating]

SessionData == [q \in Questions |-> QuestionData(log[q])]

\* The body of a successful POST /api/questions/:id/answer.
AnswerResponse(type, r, ex) ==
    [score |-> r.score, rating |-> r.rating, is_sufficient |-> r.score >= Threshold,
     submission_type |-> type, examples |-> ex]

\* ------------------------------------------------- reading-level aggregator
\* A terminal Answer: it leaves its question SUFFICIENT or FINALIZED.
TerminalAnswer(a) == a.score >= Threshold \/ a.type = "final"

RECURSIVE TerminalScores(_)
TerminalScores(h) ==
    IF h = << >> THEN << >>
    ELSE IF TerminalAnswer(Head(h)) THEN <<Head(h).score>> \o TerminalScores(Tail(h))
    ELSE TerminalScores(Tail(h))

\* The scores of the user's terminal answers, over the first n questions.
RECURSIVE TerminalHistory(_, _)
TerminalHistory(lg, n) ==
    IF n = 0 THEN << >> ELSE TerminalHistory(lg, n - 1) \o TerminalScores(lg[n])

RECURSIVE Sum(_)
Sum(scores) == IF scores = << >> THEN 0 ELSE Head(scores) + Sum(Tail(scores))

\* The arithmetic mean of the terminal scores (hundredths).
Mean(scores) == Sum(scores) \div Len(scores)

\* As recomputeReadingLevel, as an incremental patch of the stored level.
recomputeReadingLevel_Incremental(scores, grade, stored) ==
    IF scores = << >> THEN stored
    ELSE (stored + grade * 100 + (Mean(scores) - Threshold)) \div 2

\* The reading level of a user with these terminal scores and this grade level: the
\* mean mapped onto a scale on which the threshold is 'at grade level'; the stored
\* level stays when there is no terminal answer.
recomputeReadingLevel(scores, grade, stored) ==
    IF scores = << >> THEN stored
    ELSE grade * 100 + (Mean(scores) - Threshold)

\* As TriggersRecompute, with every recorded answer signalled as 'question completed'.
TriggersRecompute_EveryAnswer(a) == TRUE

\* The 'question completed' signal of the state machine: the answer is terminal.
TriggersRecompute(a) == TerminalAnswer(a)

\* ------------------------------------------------------------------ client
NoFeedback == [has |-> FALSE, score |-> 0, rating |-> 0, isSufficient |-> FALSE,
               submissionType |-> "none"]

NoSession == [loaded |-> FALSE, questions |-> [q \in Questions |-> NoQuestionData]]

\* q.score >= 0.7
MeetsThreshold(score) == score >= Threshold

\* As isCompleted, looking at the stored score only: question.score >= 0.7
isCompleted_StoredScoreOnly(q) == MeetsThreshold(session.questions[q].score)

\* const isCompleted = feedback?.isSufficient || question.score >= 0.7
isCompleted(q) ==
    feedbacks[q].isSufficient \/ MeetsThreshold(session.questions[q].score)

\* const hasFirstSubmission = submissionStates[question.id] || false
hasFirstSubmission(q) == submissionStates[q]

\* const showActionButtons = hasFirstSubmission && !isCompleted &&
\*                           feedback?.submissionType === 'initial'
showActionButtons(q) ==
    hasFirstSubmission(q) /\ ~isCompleted(q) /\ feedbacks[q].submissionType = "initial"

\* {feedback && !isCompleted && feedback.submissionType === 'initial' && ( ... )}
FeedbackBlockShown(q) ==
    feedbacks[q].has /\ ~isCompleted(q) /\ feedbacks[q].submissionType = "initial"

\* The question cards are rendered: neither "Loading session..." nor "Session not found".
Rendered == ~loading /\ session.loaded

\* The Submit Answer button (type 'initial') is on the page.
SubmitButtonShown(q) == Rendered /\ ~isCompleted(q) /\ ~hasFirstSubmission(q)

\* As ActionButtonsShown, with the buttons outside the feedback block and unguarded.
ActionButtonsShown_Unguarded(q) == Rendered /\ ~isCompleted(q)

\* The Try Again (type 'retry') and Final Submit (type 'final') buttons are on the page.
ActionButtonsShown(q) == Rendered /\ FeedbackBlockShown(q) /\ showActionButtons(q)

ControlShown(q, type) ==
    IF type = "initial" THEN SubmitButtonShown(q) ELSE ActionButtonsShown(q)

\* disabled={submitting[question.id] || !answers[question.id]?.trim()}
ControlDisabled(q) == submitting[q] \/ IsBlank(answers[q])

\* The learner can send a submission of this type for the question now.
CanSubmit(q, type) == ControlShown(q, type) /\ ~ControlDisabled(q)

\* <textarea disabled={submitting[question.id] || isCompleted}>, inside {!isCompleted ? ...}
TextareaEnabled(q) == Rendered /\ ~isCompleted(q) /\ ~submitting[q]

\* As allCompleted, with some() for every().
allCompleted_Some ==
    \E q \in Questions :
        feedbacks[q].isSufficient \/ MeetsThreshold(session.questions[q].score)

\* const allCompleted = session.questions.every(q => feedbacks[q.id]?.isSufficient || q.score >= 0.7)
allCompleted ==
    \A q \in Questions :
        feedbacks[q].isSufficient \/ MeetsThreshold(session.questions[q].score)

\* The page reports 'All questions completed!'.
CompletionShown == Rendered /\ allCompleted

\* ------------------------------------------------------------------- audio
\* What speakingQuestionId.current holds: null, question.id or `feedback-${question.id}`.
NoItem == [kind |-> "none", q |-> 0]
QuestionItem(q) == [kind |-> "question", q |-> q]
FeedbackItem(q) == [kind |-> "feedback", q |-> q]
Items == {QuestionItem(q) : q \in Questions} \cup {FeedbackItem(q) : q \in Questions}

\* ----------------------------------------------------------------- network
Remove(seq, i) == SubSeq(seq, 1, i - 1) \o SubSeq(seq, i + 1, Len(seq))

AllFalse == [q \in Questions |-> FALSE]
NoTexts == [q \in Questions |-> << >>]
NoFeedbacks == [q \in Questions |-> NoFeedback]
NoExamples == [q \in Questions |-> << >>]

\* A POST sent by submitAnswer, with the state the call closed over.
PostSent(q, type) ==
    [q |-> q, type |-> type, text |-> answers[q],
     cFeedbacks |-> feedbacks, cExamples |-> examples,
     cStates |-> submissionStates, cSubmitting |-> submitting]

\* -------------------------------------------------------------------- Init
\* A user of the default grade with the default reading level 0.0, the Profile form
\* as constructed.
UserInit ==
    /\ gradeLevel = DefaultGrade
    /\ readingLevel = 0
    /\ formData = [text |-> FALSE, grade |-> DefaultGrade]

\* Nothing is spoken and nothing listens.
AudioIdle ==
    /\ isSpeaking = FALSE
    /\ isListening = [q \in Questions |-> FALSE]
    /\ speakingQuestionId = NoItem
    /\ strayAnswers = {}
    /\ svcIsSpeaking = FALSE
    /\ svcIsListening = FALSE
    /\ utterances = << >>
    /\ synthSpeaking = FALSE
    /\ cancelled = 0
    /\ recognition = "idle"
    /\ listeningFor = 0

\* No reload is under way.
NoOffer == [reloading |-> FALSE, actions |-> [q \in Questions |-> {}]]

\* The submission types whose control is on the page for question q.
Offered(q) == {type \in SubmissionTypes : ControlShown(q, type)}

\* AuthProvider constructed with no token in localStorage, its effect run.
AuthIdle ==
    /\ authToken = NoToken
    /\ authUser = NoUser
    /\ authLoading = FALSE
    /\ storedToken = NoToken
    /\ authHeader = NoToken
    /\ profileGets = << >>
    /\ logins = 0
    /\ fetchErrorLogged = FALSE

Init ==
    /\ log = [q \in Questions |-> << >>]
    /\ session = NoSession
    /\ answers = NoTexts
    /\ feedbacks = NoFeedbacks
    /\ examples = NoExamples
    /\ submissionStates = AllFalse
    /\ loading = TRUE
    /\ submitting = AllFalse
    /\ error = "none"
    /\ posts = << >>
    /\ fetches = 1                 \* useEffect(() => { fetchSession(); }, [sessionId])
    /\ UserInit
    /\ AudioIdle
    /\ offeredBefore = NoOffer
    /\ AuthIdle

\* ----------------------------------------------------------------- actions
\* The learner edits the answer of a question.
handleAnswerChange(q, value) ==
    /\ TextareaEnabled(q)
    /\ value # answers[q]
    /\ answers' = [answers EXCEPT ![q] = value]
    /\ UNCHANGED <<log, session, feedbacks, examples, submissionStates, loading,
                   submitting, error, posts, fetches>>
    /\ UNCHANGED <<profileVars, readingLevel, audioVars, reloadVars, authVars>>

\* The learner presses the button of a submission type.  A disabled button swallows
\* the click; otherwise submitAnswer runs up to its await.
submitAnswer(q, type) ==
    /\ ControlShown(q, type)
    /\ IF ControlDisabled(q)
       THEN UNCHANGED <<submitting, error, posts>>
       ELSE IF IsBlank(answers[q])
       THEN /\ error' = "empty"
            /\ UNCHANGED <<submitting, posts>>
       ELSE /\ Len(posts) < MaxInflight
            /\ submitting' = [submitting EXCEPT ![q] = TRUE]
            /\ error' = "none"
            /\ posts' = Append(posts, PostSent(q, type))
    /\ UNCHANGED <<log, session, answers, feedbacks, examples, submissionStates,
                   loading, fetches>>
    /\ UNCHANGED <<profileVars, readingLevel, audioVars, reloadVars, authVars>>

\* As feedbackData, reading response.data.isSufficient (undefined) for is_sufficient.
feedbackData_CamelCase(resp) ==
    [has |-> TRUE, score |-> resp.score, rating |-> resp.rating,
     isSufficient |-> FALSE, submissionType |-> resp.submission_type]

\* const feedbackData = { feedback, score, rating, isSufficient, submissionType }
feedbackData(resp) ==
    [has |-> TRUE, score |-> resp.score, rating |-> resp.rating,
     isSufficient |-> resp.is_sufficient, submissionType |-> resp.submission_type]

\* What submitAnswer does with a successful response: the try block after the
\* await, then finally.
ResponseHandled(p, resp) ==
    /\ feedbacks' = [p.cFeedbacks EXCEPT ![p.q] = feedbackData(resp)]
    /\ IF resp.examples # << >>
       THEN /\ examples' = [p.cExamples EXCEPT ![p.q] = resp.examples]
            /\ submissionStates' = [p.cStates EXCEPT ![p.q] = TRUE]
       ELSE UNCHANGED <<examples, submissionStates>>
    /\ IF p.type = "final" \/ resp.is_sufficient
       THEN /\ fetches < MaxFetches
            /\ fetches' = fetches + 1
       ELSE UNCHANGED fetches
    /\ submitting' = [p.cSubmitting EXCEPT ![p.q] = FALSE]

\* The user's reading level once the answer a is recorded and the history is lg: a
\* full recompute on 'question completed', the stored level otherwise.
LevelAfter(lg, a) ==
    IF TriggersRecompute(a)
    THEN recomputeReadingLevel(TerminalHistory(lg, NumQuestions), gradeLevel, readingLevel)
    ELSE readingLevel

\* The backend records a submission (the evaluator scores it and the answer is
\* appended to the question's history) and submitAnswer continues with the response.
submitSucceeded(i) ==
    /\ i \in 1..Len(posts)
    /\ LET p == posts[i] IN
       /\ p.type \in LegalTypes(QState(log[p.q]))
       /\ ~EmptyAnswer(p.text)
       /\ Len(log[p.q]) < MaxAnswers
       /\ \E r \in EvalOutcomes, ex \in ExampleLists :
            /\ ValidScore(r)
            /\ log' = [log EXCEPT ![p.q] = Append(@,
                          [type |-> p.type, score |-> r.score, rating |-> r.rating,
                           text |-> p.text])]
            /\ readingLevel' = LevelAfter(log', [type |-> p.type, score |-> r.score])
            /\ ResponseHandled(p, AnswerResponse(p.type, r, ex))
    /\ posts' = Remove(posts, i)
    /\ UNCHANGED <<session, answers, loading, error>>
    /\ UNCHANGED <<profileVars, audioVars, reloadVars, authVars>>

\* As submitFailed, with the finally block missing: submitting is not reset.
submitFailed_NoFinally(i) ==
    /\ i \in 1..Len(posts)
    /\ error' = "submit"
    /\ posts' = Remove(posts, i)
    /\ UNCHANGED <<log, session, answers, feedbacks, examples, submissionStates,
                   loading, submitting, fetches>>
    /\ UNCHANGED <<profileVars, readingLevel, audioVars, reloadVars, authVars>>

\* The backend refuses a submission (illegal in the question's state, or empty), or
\* the evaluator or the request fails: nothing is recorded, and submitAnswer
\* continues in catch and finally.
submitFailed(i) ==
    /\ i \in 1..Len(posts)
    /\ error' = "submit"
    /\ submitting' = [posts[i].cSubmitting EXCEPT ![posts[i].q] = FALSE]
    /\ posts' = Remove(posts, i)
    /\ UNCHANGED <<log, session, answers, feedbacks, examples, submissionStates,
                   loading, fetches>>
    /\ UNCHANGED <<profileVars, readingLevel, audioVars, reloadVars, authVars>>

\* The evaluator returns no score for a submission the backend would accept: the
\* backend reports EvaluatorFailure, nothing is recorded, and submitAnswer continues
\* in catch (showing the backend's message) and finally.
submitUnscored(i) ==
    /\ i \in 1..Len(posts)
    /\ LET p == posts[i] IN
       /\ p.type \in LegalTypes(QState(log[p.q]))
       /\ ~EmptyAnswer(p.text)
       /\ \E r \in EvalOutcomes : ~ValidScore(r)
    /\ error' = "evaluator"
    /\ submitting' = [posts[i].cSubmitting EXCEPT ![posts[i].q] = FALSE]
    /\ posts' = Remove(posts, i)
    /\ UNCHANGED <<log, session, answers, feedbacks, examples, submissionStates,
                   loading, fetches>>
    /\ UNCHANGED <<profileVars, readingLevel, audioVars, reloadVars, authVars>>

\* The feedback fetchSession builds from a stored question.
LoadedFeedback(qd) ==
    IF qd.answered
    THEN [has |-> TRUE, score |-> qd.score, rating |-> qd.rating,
          isSufficient |-> MeetsThreshold(qd.score), submissionType |-> "none"]
    ELSE NoFeedback

\* The backend answers a GET /api/sessions/:id with the session as stored and
\* fetchSession continues with the response.
fetchSession ==
    /\ fetches > 0
    /\ session' = [loaded |-> TRUE, questions |-> SessionData]
    /\ answers' = [q \in Questions |-> SessionData[q].answer]
    /\ feedbacks' = [q \in Questions |-> LoadedFeedback(SessionData[q])]
    /\ examples' = NoExamples
    /\ submissionStates' = [q \in Questions |-> SessionData[q].answered]
    /\ loading' = FALSE
    /\ fetches' = fetches - 1
    /\ UNCHANGED <<log, submitting, error, posts>>
    /\ UNCHANGED <<profileVars, readingLevel, audioVars, authVars>>
    /\ offeredBefore' = NoOffer

\* A GET /api/sessions/:id fails: fetchSession continues in catch and finally.
fetchSessionFailed ==
    /\ fetches > 0
    /\ error' = "load"
    /\ loading' = FALSE
    /\ fetches' = fetches - 1
    /\ UNCHANGED <<log, session, answers, feedbacks, examples, submissionStates,
                   submitting, posts>>
    /\ UNCHANGED <<profileVars, readingLevel, audioVars, authVars>>
    /\ offeredBefore' = NoOffer

\* The learner leaves the page once the submissions have been answered and opens
\* the session again: a fresh SessionView.
Reload ==
    /\ ~loading
    /\ posts = << >>
    /\ session' = NoSession
    /\ answers' = NoTexts
    /\ feedbacks' = NoFeedbacks
    /\ examples' = NoExamples
    /\ submissionStates' = AllFalse
    /\ loading' = TRUE
    /\ submitting' = AllFalse
    /\ error' = "none"
    /\ posts' = << >>
    /\ fetches' = 1
    /\ UNCHANGED log
    /\ UNCHANGED <<profileVars, readingLevel, audioVars, authVars>>
    /\ offeredBefore' = (IF Rendered
                         THEN [reloading |-> TRUE,
                               actions |-> [q \in Questions |-> Offered(q)]]
                         ELSE NoOffer)

Next ==
    \/ \E q \in Questions, value \in Texts : handleAnswerChange(q, value)
    \/ \E q \in Questions, type \in SubmissionTypes : submitAnswer(q, type)
    \/ \E i \in 1..MaxInflight : submitSucceeded(i)
    \/ \E i \in 1..MaxInflight : submitFailed(i)
    \/ \E i \in 1..MaxInflight : submitUnscored(i)
    \/ fetchSession
    \/ fetchSessionFailed
    \/ Reload

Spec == Init /\ [][Next]_vars

\* ------------------------------------------------------------------- audio
\* The speaker button of an item is on the page: a question's always, a feedback's
\* inside the feedback block.
SpeakerShown(item) ==
    /\ Rendered
    /\ item.kind = "feedback" => FeedbackBlockShown(item.q)

\* isSpeaking && speakingQuestionId.current === the item's key: the speaker button
\* shows 'Stop reading' and a press takes the stop branch.
StopShown(item) == isSpeaking /\ speakingQuestionId = item

\* The microphone button of a question is on the page and enabled.
MicEnabled(q) == Rendered /\ ~isCompleted(q) /\ ~submitting[q]

\* newState[speakingQuestionId.current] = false, when the ref is not null; a
\* `feedback-` key is no question's entry.
ClearListening(il, ref) ==
    IF ref.kind = "question" THEN [il EXCEPT ![ref.q] = FALSE] ELSE il

\* SessionView's audioService.onError callback, after utterance.onerror or
\* recognition.onerror have run.
onError == isListening' = ClearListening(isListening, speakingQuestionId)

\* utterance.onend with SessionView's onSpeakingEnd callback.
onSpeakingEnd ==
    /\ svcIsSpeaking' = FALSE
    /\ isSpeaking' = FALSE
    /\ speakingQuestionId' = NoItem

\* audioService.stopSpeaking: synth.cancel() when synth.speaking; a queued utterance
\* that has not begun counts as speaking in some engines and not in others.  The
\* cancelled utterance that had begun still fires its last event.
stopSpeaking ==
    /\ svcIsSpeaking' = FALSE
    /\ \E cancels \in (IF utterances = << >> THEN {FALSE}
                       ELSE IF synthSpeaking THEN {TRUE} ELSE {TRUE, FALSE}) :
         IF cancels
         THEN /\ utterances' = << >>
              /\ synthSpeaking' = FALSE
              /\ IF synthSpeaking
                 THEN cancelled < MaxCancelled /\ cancelled' = cancelled + 1
                 ELSE UNCHANGED cancelled
         ELSE UNCHANGED <<utterances, synthSpeaking, cancelled>>

\* audioService.speak: stopSpeaking(), then synth.speak(utterance).
speak(item) ==
    /\ svcIsSpeaking' = FALSE
    /\ \E cancels \in (IF utterances = << >> THEN {FALSE}
                       ELSE IF synthSpeaking THEN {TRUE} ELSE {TRUE, FALSE}) :
         IF cancels
         THEN /\ utterances' = <<item>>
              /\ synthSpeaking' = FALSE
              /\ IF synthSpeaking
                 THEN cancelled < MaxCancelled /\ cancelled' = cancelled + 1
                 ELSE UNCHANGED cancelled
         ELSE /\ Len(utterances) < MaxUtterances
              /\ utterances' = Append(utterances, item)
              /\ UNCHANGED <<synthSpeaking, cancelled>>

\* The learner presses the speaker button of a question or of a feedback.
speakerPressed(item) ==
    /\ SpeakerShown(item)
    /\ IF StopShown(item)
       THEN stopSpeaking /\ UNCHANGED speakingQuestionId
       ELSE speakingQuestionId' = item /\ speak(item)
    /\ UNCHANGED <<isSpeaking, isListening, strayAnswers, svcIsListening, recognition>>
    /\ UNCHANGED <<sessionVars, answers, profileVars, readingLevel, listeningFor,
                   reloadVars, authVars>>

\* The engine begins to speak the head of the queue: utterance.onstart.
utteranceStarted ==
    /\ utterances # << >> /\ ~synthSpeaking /\ cancelled = 0
    /\ synthSpeaking' = TRUE
    /\ svcIsSpeaking' = TRUE
    /\ isSpeaking' = TRUE
    /\ UNCHANGED <<isListening, speakingQuestionId, strayAnswers, svcIsListening,
                   utterances, cancelled, recognition>>
    /\ UNCHANGED <<sessionVars, answers, profileVars, readingLevel, listeningFor,
                   reloadVars, authVars>>

\* The engine has spoken the head of the queue to its end: utterance.onend.
utteranceEnded ==
    /\ utterances # << >> /\ synthSpeaking
    /\ utterances' = Tail(utterances)
    /\ synthSpeaking' = FALSE
    /\ onSpeakingEnd
    /\ UNCHANGED <<isListening, strayAnswers, svcIsListening, cancelled, recognition>>
    /\ UNCHANGED <<sessionVars, answers, profileVars, readingLevel, listeningFor,
                   reloadVars, authVars>>

\* The engine fails on the head of the queue: utterance.onerror.
utteranceFailed ==
    /\ utterances # << >> /\ cancelled = 0
    /\ utterances' = Tail(utterances)
    /\ synthSpeaking' = FALSE
    /\ svcIsSpeaking' = FALSE
    /\ onError
    /\ UNCHANGED <<isSpeaking, speakingQuestionId, strayAnswers, svcIsListening,
                   cancelled, recognition>>
    /\ UNCHANGED <<sessionVars, answers, profileVars, readingLevel, listeningFor,
                   reloadVars, authVars>>

\* A cancelled utterance fires 'end' (engines that end an interrupted utterance).
cancelledEnded ==
    /\ cancelled > 0
    /\ cancelled' = cancelled - 1
    /\ onSpeakingEnd
    /\ UNCHANGED <<isListening, strayAnswers, svcIsListening, utterances,
                   synthSpeaking, recognition>>
    /\ UNCHANGED <<sessionVars, answers, profileVars, readingLevel, listeningFor,
                   reloadVars, authVars>>

\* A cancelled utterance fires 'error' (engines that report 'interrupted').
cancelledFailed ==
    /\ cancelled > 0
    /\ cancelled' = cancelled - 1
    /\ svcIsSpeaking' = FALSE
    /\ onError
    /\ UNCHANGED <<isSpeaking, speakingQuestionId, strayAnswers, svcIsListening,
                   utterances, synthSpeaking, recognition>>
    /\ UNCHANGED <<sessionVars, answers, profileVars, readingLevel, listeningFor,
                   reloadVars, authVars>>

\* audioService.stopListening: recognition.stop() only when the service has seen the
\* recognizer's start event.
stopListening ==
    /\ recognition' = (IF svcIsListening /\ recognition = "listening"
                       THEN "stopping" ELSE recognition)
    /\ svcIsListening' = FALSE

\* The learner presses the microphone button of a question: the stop branch when
\* the page shows the question as listening, else the start branch, where
\* recognition.start() throws unless the recognizer is idle and the catch calls
\* onError.
micPressed(q) ==
    /\ MicEnabled(q)
    /\ IF isListening[q]
       THEN /\ stopListening
            /\ isListening' = [isListening EXCEPT ![q] = FALSE]
            /\ UNCHANGED <<speakingQuestionId, listeningFor>>
       ELSE /\ speakingQuestionId' = QuestionItem(q)
            /\ IF recognition = "idle"
               THEN /\ recognition' = "starting"
                    /\ isListening' = [isListening EXCEPT ![q] = TRUE]
                    /\ listeningFor' = q
               ELSE /\ UNCHANGED <<recognition, listeningFor>>
                    /\ isListening' = [isListening EXCEPT ![q] = FALSE]
            /\ UNCHANGED svcIsListening
    /\ UNCHANGED <<isSpeaking, strayAnswers, svcIsSpeaking, utterances, synthSpeaking,
                   cancelled>>
    /\ UNCHANGED <<sessionVars, answers, profileVars, readingLevel, reloadVars, authVars>>

\* recognition.onstart: the recognizer has begun to listen.
recognitionStarted ==
    /\ recognition = "starting"
    /\ recognition' = "listening"
    /\ svcIsListening' = TRUE
    /\ UNCHANGED <<isSpeaking, isListening, speakingQuestionId, strayAnswers,
                   svcIsSpeaking, utterances, synthSpeaking, cancelled>>
    /\ UNCHANGED <<sessionVars, answers, profileVars, readingLevel, listeningFor,
                   reloadVars, authVars>>

\* recognition.onresult with SessionView's onResult: the transcript is written under
\* the key held by the ref, when it is not null; stop() still returns what was
\* captured so far.
recognitionResult(transcript) ==
    /\ recognition \in {"listening", "stopping"}
    /\ recognition' = "ending"
    /\ answers' = (IF speakingQuestionId.kind = "question"
                   THEN [answers EXCEPT ![speakingQuestionId.q] = transcript]
                   ELSE answers)
    /\ strayAnswers' = (IF speakingQuestionId.kind = "feedback"
                        THEN strayAnswers \cup {speakingQuestionId}
                        ELSE strayAnswers)
    /\ isListening' = ClearListening(isListening, speakingQuestionId)
    /\ UNCHANGED <<isSpeaking, speakingQuestionId, svcIsSpeaking, svcIsListening,
                   utterances, synthSpeaking, cancelled>>
    /\ UNCHANGED <<sessionVars, profileVars, readingLevel, listeningFor,
                   reloadVars, authVars>>

\* recognition.onerror (no speech, no permission, ...) with SessionView's onError.
recognitionFailed ==
    /\ recognition \in {"starting", "listening", "stopping"}
    /\ recognition' = "ending"
    /\ svcIsListening' = FALSE
    /\ onError
    /\ UNCHANGED <<isSpeaking, speakingQuestionId, strayAnswers, svcIsSpeaking,
                   utterances, synthSpeaking, cancelled>>
    /\ UNCHANGED <<sessionVars, answers, profileVars, readingLevel, listeningFor,
                   reloadVars, authVars>>

\* recognition.onend with SessionView's onListeningEnd: the recognizer is idle
\* again after a result, an error or a stop.
recognitionEnded ==
    /\ recognition \in {"stopping", "ending"}
    /\ recognition' = "idle"
    /\ svcIsListening' = FALSE
    /\ isListening' = ClearListening(isListening, speakingQuestionId)
    /\ UNCHANGED <<isSpeaking, speakingQuestionId, strayAnswers, svcIsSpeaking,
                   utterances, synthSpeaking, cancelled>>
    /\ UNCHANGED <<sessionVars, answers, profileVars, readingLevel, listeningFor,
                   reloadVars, authVars>>

\* The page of a loaded session whose first question has an insufficient first
\* answer with its feedback on the page, the audio idle.
AudioInit ==
    /\ log = [q \in Questions |->
                IF q = 1 THEN <<[type |-> "initial", score |-> 40, rating |-> 2,
                                 text |-> <<"a">>]>>
                ELSE << >>]
    /\ session = [loaded |-> TRUE, questions |-> [q \in Questions |-> NoQuestionData]]
    /\ answers = [q \in Questions |-> IF q = 1 THEN <<"a">> ELSE << >>]
    /\ feedbacks = [q \in Questions |->
                      IF q = 1
                      THEN feedbackData(AnswerResponse("initial",
                                        [score |-> 40, rating |-> 2], <<"ex">>))
                      ELSE NoFeedback]
    /\ examples = [q \in Questions |-> IF q = 1 THEN <<"ex">> ELSE << >>]
    /\ submissionStates = [q \in Questions |-> q = 1]
    /\ loading = FALSE
    /\ submitting = AllFalse
    /\ error = "none"
    /\ posts = << >>
    /\ fetches = 0
    /\ UserInit
    /\ AudioIdle
    /\ offeredBefore = NoOffer
    /\ AuthIdle

AudioNext ==
    \/ \E item \in Items : speakerPressed(item)
    \/ \E q \in Questions : micPressed(q)
    \/ utteranceStarted
    \/ utteranceEnded
    \/ utteranceFailed
    \/ cancelledEnded
    \/ cancelledFailed
    \/ recognitionStarted
    \/ \E transcript \in Transcripts : recognitionResult(transcript)
    \/ recognitionFailed
    \/ recognitionEnded

AudioSpec == AudioInit /\ [][AudioNext]_vars

\* ------------------------------------------------------------ AuthProvider
\* const logout = () => { setToken(null); setUser(null);
\*   localStorage.removeItem('token'); delete axios.defaults.headers.common[...] }
logout_KeepsStorage ==
    /\ authToken' = NoToken
    /\ authUser' = NoUser
    /\ UNCHANGED storedToken
    /\ authHeader' = NoToken

logout ==
    /\ authToken' = NoToken
    /\ authUser' = NoUser
    /\ storedToken' = NoToken
    /\ authHeader' = NoToken

\* isAuthenticated: !!user
isAuthenticated == authUser # NoUser

\* AuthProvider is constructed: token state from localStorage, and its effect has
\* run: with a token the header is set and the profile is fetched, without one
\* loading ends.
AuthInit ==
    /\ storedToken \in Tokens \cup {NoToken}
    /\ authToken = storedToken
    /\ authUser = NoUser
    /\ authHeader = storedToken
    /\ authLoading = (storedToken # NoToken)
    /\ profileGets = (IF storedToken # NoToken THEN <<storedToken>> ELSE << >>)
    /\ logins = 0
    /\ fetchErrorLogged = FALSE
    /\ log = [q \in Questions |-> << >>]
    /\ session = NoSession
    /\ answers = NoTexts
    /\ feedbacks = NoFeedbacks
    /\ examples = NoExamples
    /\ submissionStates = AllFalse
    /\ loading = TRUE
    /\ submitting = AllFalse
    /\ error = "none"
    /\ posts = << >>
    /\ fetches = 0
    /\ UserInit
    /\ AudioIdle
    /\ offeredBefore = NoOffer

authFrame == UNCHANGED <<sessionVars, answers, profileVars, readingLevel, audioVars,
                         reloadVars>>

\* The login form calls login(username, password): POST /api/login is sent.
login ==
    /\ ~isAuthenticated
    /\ logins < MaxLogins
    /\ logins' = logins + 1
    /\ UNCHANGED <<authToken, authUser, authLoading, storedToken, authHeader,
                   profileGets, fetchErrorLogged>>
    /\ authFrame

\* The register form calls register(...): POST /api/register is sent.
register ==
    /\ ~isAuthenticated
    /\ logins < MaxLogins
    /\ logins' = logins + 1
    /\ UNCHANGED <<authToken, authUser, authLoading, storedToken, authHeader,
                   profileGets, fetchErrorLogged>>
    /\ authFrame

\* The backend accepts a login or a registration: token and user are set, the token
\* is stored and put into the header; the effect on [token] then runs when the token
\* has changed and fetches the profile.
loginSucceeded(access_token) ==
    /\ logins > 0
    /\ logins' = logins - 1
    /\ authToken' = access_token
    /\ authUser' = UserData
    /\ storedToken' = access_token
    /\ authHeader' = access_token
    /\ IF access_token # authToken
       THEN /\ Len(profileGets) < MaxProfileGets
            /\ profileGets' = Append(profileGets, access_token)
       ELSE UNCHANGED profileGets
    /\ UNCHANGED <<authLoading, fetchErrorLogged>>
    /\ authFrame

\* The backend refuses a login or a registration, or the request fails: the caller
\* gets { success: false } and the state is left alone.
loginFailed ==
    /\ logins > 0
    /\ logins' = logins - 1
    /\ UNCHANGED <<authToken, authUser, authLoading, storedToken, authHeader,
                   profileGets, fetchErrorLogged>>
    /\ authFrame

\* Profile.handleSubmit has saved the grade and calls fetchProfile(): GET /api/profile
\* is sent with the header of that moment.
refreshProfile ==
    /\ isAuthenticated
    /\ Len(profileGets) < MaxProfileGets
    /\ profileGets' = Append(profileGets, authHeader)
    /\ UNCHANGED <<authToken, authUser, authLoading, storedToken, authHeader, logins,
                   fetchErrorLogged>>
    /\ authFrame

\* GET /api/profile, sent with a token, is answered with the user: fetchProfile
\* continues with setUser(response.data) and finally setLoading(false).
fetchProfileSucceeded(i) ==
    /\ i \in 1..Len(profileGets)
    /\ profileGets[i] # NoToken
    /\ profileGets' = Remove(profileGets, i)
    /\ authUser' = UserData
    /\ authLoading' = FALSE
    /\ UNCHANGED <<authToken, storedToken, authHeader, logins, fetchErrorLogged>>
    /\ authFrame

\* As fetchProfileFailed, with the catch block only logging the error.
fetchProfileFailed_NoLogout(i) ==
    /\ i \in 1..Len(profileGets)
    /\ profileGets' = Remove(profileGets, i)
    /\ fetchErrorLogged' = TRUE
    /\ authLoading' = FALSE
    /\ UNCHANGED <<authToken, authUser, storedToken, authHeader, logins>>
    /\ authFrame

\* GET /api/profile fails (no or rejected token, network): fetchProfile continues in
\* catch with console.error and logout(), and finally setLoading(false).
fetchProfileFailed(i) ==
    /\ i \in 1..Len(profileGets)
    /\ profileGets' = Remove(profileGets, i)
    /\ fetchErrorLogged' = TRUE
    /\ logout
    /\ authLoading' = FALSE
    /\ UNCHANGED logins
    /\ authFrame

\* Navbar.handleLogout: logout(), then navigate('/login'); the effect on [token] ends
\* loading when the token has changed to null.
handleLogout ==
    /\ isAuthenticated
    /\ logout
    /\ authLoading' = (IF authToken # NoToken THEN FALSE ELSE authLoading)
    /\ UNCHANGED <<profileGets, logins, fetchErrorLogged>>
    /\ authFrame

AuthNext ==
    \/ login
    \/ register
    \/ \E access_token \in Tokens : loginSucceeded(access_token)
    \/ loginFailed
    \/ refreshProfile
    \/ \E i \in 1..MaxProfileGets : fetchProfileSucceeded(i)
    \/ \E i \in 1..MaxProfileGets : fetchProfileFailed(i)
    \/ handleLogout

AuthSpec == AuthInit /\ [][AuthNext]_vars

\* ------------------------------------------- profile and reading level
\* parseInt(formData.grade_level): the number 3 or a fetched grade as it is, the
\* text of a chosen option as its number.
parseInt(value) == value.grade

\* Profile.handleChange: the learner picks a grade; e.target.value is a text.
handleChange(g) ==
    /\ formData # [text |-> TRUE, grade |-> g]
    /\ formData' = [text |-> TRUE, grade |-> g]
    /\ UNCHANGED <<sessionVars, answers, gradeLevel, readingLevel, audioVars, reloadVars, authVars>>

\* Profile.handleSubmit with a successful PUT /api/profile { grade_level }: the
\* backend stores the grade level, fetchProfile returns the user and the effect on
\* authUser puts the stored grade level into the form.
handleSubmit ==
    /\ gradeLevel' = parseInt(formData)
    /\ formData' = [text |-> FALSE, grade |-> parseInt(formData)]
    /\ UNCHANGED <<sessionVars, answers, readingLevel, audioVars, reloadVars, authVars>>

\* The backend accepts a submission: recordSubmission appends the answer and, on
\* 'question completed', the aggregator recomputes the reading level.
recordSubmission(q, type, text, r) ==
    /\ type \in LegalTypes(QState(log[q]))
    /\ ~EmptyAnswer(text)
    /\ ValidScore(r)
    /\ Len(log[q]) < MaxAnswers
    /\ log' = [log EXCEPT ![q] = Append(@,
                  [type |-> type, score |-> r.score, rating |-> r.rating, text |-> text])]
    /\ readingLevel' = LevelAfter(log', [type |-> type, score |-> r.score])
    /\ UNCHANGED <<session, answers, feedbacks, examples, submissionStates, loading,
                   submitting, error, posts, fetches, profileVars, audioVars,
                   reloadVars, authVars>>

\* The backend refuses a submission (InvalidSubmissionOrder, QuestionAlreadyComplete,
\* EmptyAnswerError, EvaluatorFailure): nothing is persisted.
refuseSubmission(q, type, text, r) ==
    /\ \/ type \notin LegalTypes(QState(log[q]))
       \/ EmptyAnswer(text)
       \/ ~ValidScore(r)
    /\ UNCHANGED vars

\* recomputeReadingLevel called on its own.
recomputeCall ==
    /\ readingLevel' = recomputeReadingLevel(TerminalHistory(log, NumQuestions),
                                             gradeLevel, readingLevel)
    /\ UNCHANGED <<sessionVars, answers, profileVars, audioVars, reloadVars, authVars>>

\* A user of any grade opens the Profile page; the sessions' questions are unanswered.
AggregatorInit ==
    /\ log = [q \in Questions |-> << >>]
    /\ session = NoSession
    /\ answers = NoTexts
    /\ feedbacks = NoFeedbacks
    /\ examples = NoExamples
    /\ submissionStates = AllFalse
    /\ loading = TRUE
    /\ submitting = AllFalse
    /\ error = "none"
    /\ posts = << >>
    /\ fetches = 0
    /\ UserInit
    /\ AudioIdle
    /\ offeredBefore = NoOffer
    /\ AuthIdle

AggregatorNext ==
    \/ \E g \in Grades : handleChange(g)
    \/ handleSubmit
    \/ \E q \in Questions, type \in SubmissionTypes, text \in Texts, r \in EvalOutcomes :
          recordSubmission(q, type, text, r)
    \/ \E q \in Questions, type \in SubmissionTypes, text \in Texts, r \in EvalOutcomes :
          refuseSubmission(q, type, text, r)

\* The backend's submissions and the profile updates of one user.
AggregatorSpec == AggregatorInit /\ [][AggregatorNext]_vars

\* The same, with recomputeReadingLevel also called on its own.
RecomputeSpec == AggregatorInit /\ [][AggregatorNext \/ recomputeCall]_vars

\* ------------------------------------------------------------------ claims
\* The question has a final answer.
FinalRecorded(q) == \E k \in 1..Len(log[q]) : log[q][k].type = "final"

\* The text is empty or consists of whitespace only.
WhitespaceOnly(text) == \A k \in 1..Len(text) : text[k] = " "

\* This step sends a submission for question q.
Sends(q) == Len(posts') = Len(posts) + 1 /\ posts'[Len(posts')].q = q

\* This step records an answer for question q and handles its response.
Completes(q) == log'[q] # log[q]

\* C1: whenever a question is AWAITING_RETRY (its latest answer is an insufficient
\* initial or retry and it has no final answer), the page is shown with no request
\* pending and it has registered the question's first submission, both the Try Again
\* (retry) and the Final Submit (final) controls are offered for it.
C1_RetryAndFinalOffered ==
    \A q \in Questions :
        (Rendered /\ posts = << >> /\ fetches = 0 /\ hasFirstSubmission(q)
            /\ QState(log[q]) = "AWAITING_RETRY")
        => (ControlShown(q, "retry") /\ ControlShown(q, "final"))

\* C2: once a question is SUFFICIENT or FINALIZED, no step sends a submission of any
\* type for it.
C2_NoSubmissionOnceComplete ==
    [][\A q \in Questions : isTerminal(QState(log[q])) => ~Sends(q)]_vars

\* C3: for a question with no recorded answer only the initial control is offered,
\* and every retry or final submission in flight is for a question whose history
\* starts with a recorded initial answer.
C3_OnlyInitialBeforeFirstAnswer ==
    /\ \A q \in Questions :
         log[q] = << >> => (~ControlShown(q, "retry") /\ ~ControlShown(q, "final"))
    /\ \A i \in 1..Len(posts) :
         posts[i].type \in {"retry", "final"} =>
            (log[posts[i].q] # << >> /\ log[posts[i].q][1].type = "initial")

C3_Witness ==
    \E i \in 1..Len(posts) :
        /\ posts[i].type = "initial" /\ log[posts[i].q] = << >>
        /\ \E j \in 1..Len(posts) : posts[j].type = "retry"

\* C4: a question with a recorded final answer is shown as completed once its
\* submission has been answered, whatever the score.
C4_FinalIsCompleted ==
    \A q \in Questions :
        (Rendered /\ posts = << >> /\ FinalRecorded(q)) => isCompleted(q)

\* C5: while the feedback of an initial or retry submission with score >= 0.7 is on
\* the page, the question is SUFFICIENT, is shown as completed and offers no
\* submission control.
C5_SufficientIsCompleted ==
    \A q \in Questions :
        (/\ feedbacks[q].has
         /\ feedbacks[q].submissionType \in {"initial", "retry"}
         /\ feedbacks[q].score >= Threshold)
        => (/\ QState(log[q]) = "SUFFICIENT"
            /\ isCompleted(q)
            /\ \A type \in SubmissionTypes : ~ControlShown(q, type))

C5_Witness ==
    \E q \in Questions :
        /\ feedbacks[q].submissionType = "retry"
        /\ feedbacks[q].score >= Threshold
        /\ Rendered
        /\ isCompleted(q)

\* C6: a question whose initial answer met the threshold has that answer as its whole
\* history (it never was AWAITING_RETRY), is SUFFICIENT, and is never offered the
\* retry and final controls.
C6_SufficientInitialSkipsRetry ==
    \A q \in Questions :
        (log[q] # << >> /\ log[q][1].type = "initial" /\ log[q][1].score >= Threshold)
        => (/\ Len(log[q]) = 1
            /\ QState(log[q]) = "SUFFICIENT"
            /\ ~ControlShown(q, "retry")
            /\ ~ControlShown(q, "final"))

C6_Witness ==
    \E q \in Questions :
        /\ Len(log[q]) = 1 /\ log[q][1].score >= Threshold
        /\ Rendered
        /\ feedbacks[q].submissionType = "initial"
        /\ submissionStates[q]

\* C7: no request in flight and no recorded answer carries an empty or
\* whitespace-only text, and a press of a submission control with such a text
\* changes nothing: no request, no answer, the question's feedback, examples,
\* first-submission flag and submitting flag as before.
C7_NoEmptyRequest ==
    /\ \A i \in 1..Len(posts) : ~WhitespaceOnly(posts[i].text)
    /\ \A q \in Questions : \A k \in 1..Len(log[q]) : ~WhitespaceOnly(log[q][k].text)

C7_EmptyPressKeepsState ==
    \A q \in Questions, type \in SubmissionTypes :
        (WhitespaceOnly(answers[q]) /\ submitAnswer(q, type))
        => UNCHANGED <<log, posts, feedbacks, examples, submissionStates, submitting>>

C7_EmptyAnswerRejected == []C7_NoEmptyRequest /\ [][C7_EmptyPressKeepsState]_vars

C7_Witness ==
    \E q \in Questions :
        /\ answers[q] = <<" ">>
        /\ ControlShown(q, "retry") /\ ControlShown(q, "final")
        /\ ~submitting[q]
        /\ \E q2 \in Questions : answers[q2] = << >> /\ ControlShown(q2, "initial")

\* C8: a failed submission records no answer and leaves the question's feedback,
\* examples, first-submission flag and typed text as they were; the error is shown,
\* the question is no longer submitting, every control that was offered for the
\* question is still offered, and when the control of the failed type is offered and
\* the text is still the one sent, it can be sent again.
C8_FailureStep ==
    \A i \in 1..Len(posts), q \in Questions :
        (posts[i].q = q /\ submitFailed(i)) =>
            /\ log' = log
            /\ feedbacks' = feedbacks
            /\ examples' = examples
            /\ submissionStates' = submissionStates
            /\ answers' = answers
            /\ error' = "submit"
            /\ ~submitting'[q]
            /\ \A type \in SubmissionTypes :
                 /\ ControlShown(q, type)' = ControlShown(q, type)
                 /\ (/\ posts[i].type = type
                     /\ ControlShown(q, type)
                     /\ answers[q] = posts[i].text) => CanSubmit(q, type)'

C9_OtherFeedbackKept ==
    [][\A q \in Questions :
          Completes(q) =>
             \A q2 \in Questions \ {q} : feedbacks'[q2] = feedbacks[q2]]_vars

\* C10: 'All questions completed!' is shown only when every question is SUFFICIENT
\* or FINALIZED.
C10_CompletionOnlyWhenAllTerminal ==
    CompletionShown => \A q \in Questions : isTerminal(QState(log[q]))

C10_Witness == CompletionShown /\ posts = << >> /\ fetches = 0

\* C11: once every question of the session is SUFFICIENT or FINALIZED, the page is
\* shown, no request is pending and the last submission did not fail, the session is
\* reported as completed ('All questions completed!').
C11_CompletionReported ==
    (/\ Rendered /\ posts = << >> /\ fetches = 0 /\ error = "none"
     /\ \A q \in Questions : isTerminal(QState(log[q])))
    => CompletionShown

\* C12: of two final submissions in flight for one question the backend accepts one:
\* no history ever holds two final answers, and handling a final submission for a
\* question that already has a final answer appends nothing and is answered with an
\* error.
FinalCount(q) == Cardinality({k \in 1..Len(log[q]) : log[q][k].type = "final"})

C12_AtMostOneFinal == \A q \in Questions : FinalCount(q) <= 1

C12_LoserAppendsNothing ==
    \A i \in 1..Len(posts), q \in Questions :
        (/\ posts[i].q = q /\ posts[i].type = "final" /\ FinalRecorded(q)
         /\ posts' = Remove(posts, i))
        => (log' = log /\ error' = "submit")

C12_OneFinalWins == []C12_AtMostOneFinal /\ [][C12_LoserAppendsNothing]_vars

C12_Witness ==
    \E q \in Questions, i \in 1..Len(posts) :
        FinalRecorded(q) /\ posts[i].q = q /\ posts[i].type = "final"

\* C13: no recorded answer and no feedback on the page carries a missing score, and
\* the handling of a submission whose evaluation has no score leaves the history, the
\* feedback, the examples and the first-submission flags as they were.
C13_NoUnscoredRecord ==
    \A q \in Questions :
        /\ \A k \in 1..Len(log[q]) : log[q][k].score # NoScore
        /\ feedbacks[q].has => feedbacks[q].score # NoScore

C13_UnscoredStep ==
    \A i \in 1..Len(posts) :
        submitUnscored(i) => UNCHANGED <<log, feedbacks, examples, submissionStates>>

C13_UnscoredRejected == []C13_NoUnscoredRecord /\ [][C13_UnscoredStep]_vars

C13_Witness ==
    \E q \in Questions :
        error = "evaluator" /\ QState(log[q]) = "AWAITING_RETRY" /\ feedbacks[q].has

\* The scores of the user's terminal answers.
History == TerminalHistory(log, NumQuestions)

\* C14: a recomputation leaves a level that a second recomputation with no answer
\* added in between does not change, and that is the level computed from the
\* terminal answers and the grade level alone, whatever level was stored before.
C14_RecomputeStep ==
    recomputeCall =>
        /\ recomputeReadingLevel(History, gradeLevel, readingLevel') = readingLevel'
        /\ readingLevel' = recomputeReadingLevel(History, gradeLevel, 0)

C14_RecomputeIdempotent == [][C14_RecomputeStep]_vars

C14_Witness ==
    /\ History # << >>
    /\ gradeLevel # DefaultGrade
    /\ readingLevel = recomputeReadingLevel(History, gradeLevel, 0)
    /\ readingLevel # recomputeReadingLevel(History, DefaultGrade, 0)

\* C15: the reading level changes only in a step that records a terminal answer.
C15_LevelStep ==
    readingLevel' # readingLevel =>
        \E q \in Questions :
            /\ Len(log'[q]) = Len(log[q]) + 1
            /\ TerminalAnswer(log'[q][Len(log'[q])])

C15_LevelChangesOnTerminalOnly == [][C15_LevelStep]_vars

C15_Witness ==
    /\ History # << >>
    /\ gradeLevel # DefaultGrade
    /\ readingLevel = recomputeReadingLevel(History, DefaultGrade, 0)
    /\ \E q \in Questions : QState(log[q]) = "AWAITING_RETRY"

\* C16: a transcript is inserted into the answer field of exactly the question whose
\* microphone button started the listening, and into no other entry, whatever was
\* read aloud or stopped being read since the listening started.
C16_TranscriptToListener ==
    [][\A transcript \in Transcripts :
          recognitionResult(transcript) =>
              /\ answers' = [answers EXCEPT ![listeningFor] = transcript]
              /\ strayAnswers' = strayAnswers]_vars

\* C17: pressing the speaker button of the item that is being spoken stops the
\* playback and queues no new utterance.
C17_TapStopsPlayback ==
    [][\A item \in Items :
          (/\ synthSpeaking
           /\ utterances # << >>
           /\ Head(utterances) = item
           /\ speakerPressed(item)) => utterances' = << >>]_vars

\* C18: pressing the microphone button of a question shown as listening stops the
\* recognizer and turns the indicator off, also before the recognizer has reported
\* its start, and no transcript arrives from a recognizer that was stopped.
C18_TapStopsRecording ==
    [][/\ \A q \in Questions :
            (isListening[q] /\ micPressed(q)) =>
                /\ recognition' \notin {"starting", "listening"}
                /\ ~isListening'[q]
       /\ \A transcript \in Transcripts :
            recognitionResult(transcript) => recognition # "stopping"]_vars

\* C19: once the recognizer has ended, no question is shown as 'Listening...'.
C19_IdleAfterRecognition ==
    recognition = "idle" => \A q \in Questions : ~isListening[q]

\* C20: once the response to a question's initial submission has been received, no
\* later submission for that question is of type initial, whatever the response
\* contained and after any reload of the session.
C20_InitialOnce ==
    [][\A q \in Questions :
          (log[q] # << >> /\ Sends(q)) => posts'[Len(posts')].type # "initial"]_vars

\* The submissions of question q that are in flight.
PendingFor(q) == {i \in 1..Len(posts) : posts[i].q = q}

\* C21: at most one submission per question is in flight, and while one is pending
\* the question is marked as submitting, so that its submit controls are disabled.
C21_OneInFlightPerQuestion ==
    \A q \in Questions :
        /\ Cardinality(PendingFor(q)) <= 1
        /\ PendingFor(q) # {} => submitting[q]

\* C22: once every submission request has completed, no question is left marked as
\* submitting.
C22_NoSubmittingLeft ==
    posts = << >> => \A q \in Questions : ~submitting[q]

\* What the page holds and offers for question q.
QView(q) ==
    [draft |-> answers[q], feedback |-> feedbacks[q], examples |-> examples[q],
     actions |-> {type \in SubmissionTypes : ControlShown(q, type)}]

\* C23: the step that handles the response to a submission of one question leaves
\* the draft, feedback, examples and offered actions of every other question as they
\* were, and so does the session refresh that follows a submission for every
\* question that has never been submitted.
C23_OtherQuestionsUnchanged ==
    [][/\ \A i \in 1..Len(posts) :
            posts' = Remove(posts, i) =>
                \A q \in Questions \ {posts[i].q} : QView(q)' = QView(q)
       /\ (session.loaded /\ fetches' < fetches) =>
            \A q \in Questions : log[q] = << >> => QView(q)' = QView(q)]_vars

\* C24: when a reloaded session has been fetched, the page offers for every question
\* exactly the actions it offered when it was left.
C24_ReloadKeepsActions ==
    [][(offeredBefore.reloading /\ session'.loaded /\ ~loading') =>
           \A q \in Questions : Offered(q)' = offeredBefore.actions[q]]_vars

\* C25: whenever the user is authenticated, a token is stored in localStorage and the
\* Authorization header is set.
C25_AuthenticatedHasToken ==
    isAuthenticated => storedToken # NoToken /\ authHeader # NoToken

\* Nothing of a login is left: token state, user, stored token and header.
LoggedOut ==
    /\ authToken = NoToken
    /\ authUser = NoUser
    /\ storedToken = NoToken
    /\ authHeader = NoToken

\* C26: a failed profile fetch logs the user out and ends loading: the token is
\* removed from localStorage, the header is deleted and user is null; in particular,
\* when the loading of the start ends with nobody logged in, no token is left.
C26_FailedFetchLogsOut ==
    [][/\ \A i \in 1..MaxProfileGets :
            fetchProfileFailed(i) => LoggedOut' /\ ~authLoading'
       /\ (authLoading /\ ~authLoading' /\ ~isAuthenticated') => LoggedOut']_vars

\* The profile fetch of a start with a stored token has failed and nothing else is
\* under way.
C26_Witness ==
    /\ fetchErrorLogged
    /\ LoggedOut
    /\ ~authLoading
    /\ profileGets = << >>
    /\ logins = 0

\* C27: logout clears token state, user, localStorage and the header together, from
\* the Navbar and from a failed profile fetch alike: whenever the user stops being
\* authenticated nothing of the login is left.
C27_LogoutClearsAll ==
    [][/\ handleLogout => LoggedOut'
       /\ (isAuthenticated /\ ~isAuthenticated') => LoggedOut']_vars

\* The user has logged out from the Navbar while a profile fetch was in flight.
C27_Witness ==
    /\ LoggedOut
    /\ ~fetchErrorLogged
    /\ profileGets # << >>

====
